---- MODULE Spec2Model ----
(***************************************************************************)
(* Sdc::Options (opensubdiv/sdc/options.h): four enumerated settings kept  *)
(* in unsigned bit-fields of width 2, 3, 2, 2, a default constructor, and  *)
(* one trivial getter and setter per field.                                *)
(*                                                                         *)
(* An enum argument is modelled by the integer it carries.  The setters    *)
(* perform no validation, so whatever integer the argument carries is      *)
(* converted to the unsigned bit-field, i.e. reduced modulo 2^width.       *)
(* Integers that are not declared enumerators reach a setter through a     *)
(* cast in the caller.  3 lies inside the value range of the enumeration   *)
(* VtxBoundaryInterpolation (0..3) and 6, 7 inside that of                 *)
(* FVarLinearInterpolation (0..7), so those casts are fully defined.       *)
(* Larger integers, and 2 or 3 for the two-member enumerations, lie        *)
(* outside the value range; the cast that produces them is the caller's,   *)
(* and the argument then carries that integer in the enumeration's         *)
(* underlying type, which is what the setter's conversion receives.        *)
(***************************************************************************)
EXTENDS Integers, FiniteSets, Sequences, TLC

\* How far beyond the largest value of a bit-field (2^width - 1) the integers
\* handed to a setter range.
MaxOver == 1

\* The objects a client holds.
Inst == {"A", "B"}

(***************************************************************************)
(* Enumerations                                                            *)
(***************************************************************************)
VTX_BOUNDARY_NONE == 0
VTX_BOUNDARY_EDGE_ONLY == 1
VTX_BOUNDARY_EDGE_AND_CORNER == 2

VtxBoundaryInterpolation ==
    {VTX_BOUNDARY_NONE, VTX_BOUNDARY_EDGE_ONLY, VTX_BOUNDARY_EDGE_AND_CORNER}

FVAR_LINEAR_NONE == 0
FVAR_LINEAR_CORNERS_ONLY == 1
FVAR_LINEAR_CORNERS_PLUS1 == 2
FVAR_LINEAR_CORNERS_PLUS2 == 3
FVAR_LINEAR_BOUNDARIES == 4
FVAR_LINEAR_ALL == 5

FVarLinearInterpolation ==
    {FVAR_LINEAR_NONE, FVAR_LINEAR_CORNERS_ONLY, FVAR_LINEAR_CORNERS_PLUS1,
     FVAR_LINEAR_CORNERS_PLUS2, FVAR_LINEAR_BOUNDARIES, FVAR_LINEAR_ALL}

CREASE_UNIFORM == 0
CREASE_CHAIKIN == 1

CreasingMethod == {CREASE_UNIFORM, CREASE_CHAIKIN}

TRI_SUB_CATMARK == 0
TRI_SUB_SMOOTH == 1

TriangleSubdivision == {TRI_SUB_CATMARK, TRI_SUB_SMOOTH}

(***************************************************************************)
(* Bit-field members                                                       *)
(***************************************************************************)
VtxBoundInterpBits == 2
FVarLinInterpBits == 3
CreasingMethodBits == 2
TriangleSubBits == 2

\* Variant: a value too large for the field saturates at the field's maximum.
BitField_Saturate(v, w) == IF v >= 2 ^ w THEN (2 ^ w) - 1 ELSE v

\* Conversion of an integer to an unsigned bit-field of width w.
BitField(v, w) == v % (2 ^ w)

\* The integers a caller can hand to the setter of a field of width w.
IntArgs(w) == 0 .. ((2 ^ w) - 1 + MaxOver)

(***************************************************************************)
(* The class: constructor, getters, setters (on one object's fields)       *)
(***************************************************************************)
\* Variant: the constructor initialises face-varying interpolation to the
\* first enumerator instead of FVAR_LINEAR_ALL.
Options_FVarNone ==
    [vtxBoundInterp |-> BitField(VTX_BOUNDARY_NONE, VtxBoundInterpBits),
     fvarLinInterp  |-> BitField(FVAR_LINEAR_NONE, FVarLinInterpBits),
     creasingMethod |-> BitField(CREASE_UNIFORM, CreasingMethodBits),
     triangleSub    |-> BitField(TRI_SUB_CATMARK, TriangleSubBits)]

Options ==
    [vtxBoundInterp |-> BitField(VTX_BOUNDARY_NONE, VtxBoundInterpBits),
     fvarLinInterp  |-> BitField(FVAR_LINEAR_ALL, FVarLinInterpBits),
     creasingMethod |-> BitField(CREASE_UNIFORM, CreasingMethodBits),
     triangleSub    |-> BitField(TRI_SUB_CATMARK, TriangleSubBits)]

GetVtxBoundaryInterpolation(o) == o.vtxBoundInterp

\* Variant: the setter accumulates into the field instead of overwriting it.
SetVtxBoundaryInterpolation_Accumulate(o, b) ==
    [o EXCEPT !.vtxBoundInterp = BitField(o.vtxBoundInterp + b, VtxBoundInterpBits)]

SetVtxBoundaryInterpolation(o, b) ==
    [o EXCEPT !.vtxBoundInterp = BitField(b, VtxBoundInterpBits)]

\* Variant: the getter reads only the two low bits of the 3-bit field.
GetFVarLinearInterpolation_TwoBits(o) == o.fvarLinInterp % 4

GetFVarLinearInterpolation(o) == o.fvarLinInterp

\* Variant: face-varying interpolation declared as a 2-bit field.
SetFVarLinearInterpolation_TwoBits(o, b) ==
    [o EXCEPT !.fvarLinInterp = BitField(b, VtxBoundInterpBits)]

SetFVarLinearInterpolation(o, b) ==
    [o EXCEPT !.fvarLinInterp = BitField(b, FVarLinInterpBits)]

GetCreasingMethod(o) == o.creasingMethod

\* Variant: the creasing setter also assigns the triangle-subdivision field.
SetCreasingMethod_AlsoTriangle(o, c) ==
    [o EXCEPT !.creasingMethod = BitField(c, CreasingMethodBits),
              !.triangleSub = BitField(c, TriangleSubBits)]

SetCreasingMethod(o, c) ==
    [o EXCEPT !.creasingMethod = BitField(c, CreasingMethodBits)]

GetTriangleSubdivision(o) == o.triangleSub

SetTriangleSubdivision(o, t) ==
    [o EXCEPT !.triangleSub = BitField(t, TriangleSubBits)]

\* The implicitly-defined copy: member-wise copy of the four bit-fields.
CopyOf(o) ==
    [vtxBoundInterp |-> o.vtxBoundInterp,
     fvarLinInterp  |-> o.fvarLinInterp,
     creasingMethod |-> o.creasingMethod,
     triangleSub    |-> o.triangleSub]

(***************************************************************************)
(* State                                                                   *)
(*   opts    : the live objects and their four stored bit-fields           *)
(*   written : history, per object and field: the argument of the most     *)
(*             recent setter call since construction (<< >> if none)       *)
(*   last    : the most recent call, its target, argument, return value    *)
(*             and outcome                                                 *)
(***************************************************************************)
VARIABLES opts, written, last

vars == <<opts, written, last>>

NeverWritten ==
    [vtxBoundInterp |-> << >>, fvarLinInterp |-> << >>,
     creasingMethod |-> << >>, triangleSub |-> << >>]

\* f with object i (created if need be) mapped to v.
Bind(f, i, v) == [j \in (DOMAIN f) \cup {i} |-> IF j = i THEN v ELSE f[j]]

\* Variant: the fields are storage shared by every object (static members).
StoreThis_Shared(i, o) == [j \in DOMAIN opts |-> o]

\* The object `this` of a setter call becomes o; no other object is touched.
StoreThis(i, o) == [opts EXCEPT ![i] = o]

Init ==
    /\ opts = [i \in {"A"} |-> Options]
    /\ written = [i \in {"A"} |-> NeverWritten]
    /\ last = [op |-> "Options", inst |-> "A", arg |-> << >>, ret |-> << >>,
               status |-> "ok"]

\* Options i;   (or i = Options();)
Construct(i) ==
    /\ opts' = Bind(opts, i, Options)
    /\ written' = Bind(written, i, NeverWritten)
    /\ last' = [op |-> "Options", inst |-> i, arg |-> << >>, ret |-> << >>,
                status |-> "ok"]

\* Options j(i);   (or j = i;)
Copy(i, j) ==
    /\ i \in DOMAIN opts
    /\ j # i
    /\ opts' = Bind(opts, j, CopyOf(opts[i]))
    /\ written' = Bind(written, j, written[i])
    /\ last' = [op |-> "Copy", inst |-> j, arg |-> <<i>>, ret |-> << >>,
                status |-> "ok"]

CallSetVtxBoundaryInterpolation(i, b) ==
    /\ i \in DOMAIN opts
    /\ opts' = StoreThis(i, SetVtxBoundaryInterpolation(opts[i], b))
    /\ written' = [written EXCEPT ![i].vtxBoundInterp = <<b>>]
    /\ last' = [op |-> "SetVtxBoundaryInterpolation", inst |-> i,
                arg |-> <<b>>, ret |-> << >>, status |-> "ok"]

CallSetFVarLinearInterpolation(i, b) ==
    /\ i \in DOMAIN opts
    /\ opts' = StoreThis(i, SetFVarLinearInterpolation(opts[i], b))
    /\ written' = [written EXCEPT ![i].fvarLinInterp = <<b>>]
    /\ last' = [op |-> "SetFVarLinearInterpolation", inst |-> i,
                arg |-> <<b>>, ret |-> << >>, status |-> "ok"]

CallSetCreasingMethod(i, c) ==
    /\ i \in DOMAIN opts
    /\ opts' = StoreThis(i, SetCreasingMethod(opts[i], c))
    /\ written' = [written EXCEPT ![i].creasingMethod = <<c>>]
    /\ last' = [op |-> "SetCreasingMethod", inst |-> i,
                arg |-> <<c>>, ret |-> << >>, status |-> "ok"]

CallSetTriangleSubdivision(i, t) ==
    /\ i \in DOMAIN opts
    /\ opts' = StoreThis(i, SetTriangleSubdivision(opts[i], t))
    /\ written' = [written EXCEPT ![i].triangleSub = <<t>>]
    /\ last' = [op |-> "SetTriangleSubdivision", inst |-> i,
                arg |-> <<t>>, ret |-> << >>, status |-> "ok"]

CallGetVtxBoundaryInterpolation(i) ==
    /\ i \in DOMAIN opts
    /\ last' = [op |-> "GetVtxBoundaryInterpolation", inst |-> i, arg |-> << >>,
                ret |-> <<GetVtxBoundaryInterpolation(opts[i])>>, status |-> "ok"]
    /\ UNCHANGED <<opts, written>>

CallGetFVarLinearInterpolation(i) ==
    /\ i \in DOMAIN opts
    /\ last' = [op |-> "GetFVarLinearInterpolation", inst |-> i, arg |-> << >>,
                ret |-> <<GetFVarLinearInterpolation(opts[i])>>, status |-> "ok"]
    /\ UNCHANGED <<opts, written>>

CallGetCreasingMethod(i) ==
    /\ i \in DOMAIN opts
    /\ last' = [op |-> "GetCreasingMethod", inst |-> i, arg |-> << >>,
                ret |-> <<GetCreasingMethod(opts[i])>>, status |-> "ok"]
    /\ UNCHANGED <<opts, written>>

CallGetTriangleSubdivision(i) ==
    /\ i \in DOMAIN opts
    /\ last' = [op |-> "GetTriangleSubdivision", inst |-> i, arg |-> << >>,
                ret |-> <<GetTriangleSubdivision(opts[i])>>, status |-> "ok"]
    /\ UNCHANGED <<opts, written>>

(***************************************************************************)
(* Spec: one object, driven by a client that hands the setters arbitrary   *)
(* small integers (declared enumerators and others).                       *)
(***************************************************************************)
Next ==
    \/ Construct("A")
    \/ \E b \in IntArgs(VtxBoundInterpBits) : CallSetVtxBoundaryInterpolation("A", b)
    \/ \E b \in IntArgs(FVarLinInterpBits) : CallSetFVarLinearInterpolation("A", b)
    \/ \E c \in IntArgs(CreasingMethodBits) : CallSetCreasingMethod("A", c)
    \/ \E t \in IntArgs(TriangleSubBits) : CallSetTriangleSubdivision("A", t)
    \/ CallGetVtxBoundaryInterpolation("A")
    \/ CallGetFVarLinearInterpolation("A")
    \/ CallGetCreasingMethod("A")
    \/ CallGetTriangleSubdivision("A")

Spec == Init /\ [][Next]_vars

(***************************************************************************)
(* SpecCopy: object A, copies of it (B is only ever created as a copy),    *)
(* and a client that passes only declared enumerators to the setters of    *)
(* either object.                                                          *)
(***************************************************************************)
NextCopy ==
    \/ Construct("A")
    \/ \E i \in Inst, j \in Inst : Copy(i, j)
    \/ \E i \in Inst, b \in VtxBoundaryInterpolation :
          CallSetVtxBoundaryInterpolation(i, b)
    \/ \E i \in Inst, b \in FVarLinearInterpolation :
          CallSetFVarLinearInterpolation(i, b)
    \/ \E i \in Inst, c \in CreasingMethod : CallSetCreasingMethod(i, c)
    \/ \E i \in Inst, t \in TriangleSubdivision : CallSetTriangleSubdivision(i, t)

SpecCopy == Init /\ [][NextCopy]_vars

(***************************************************************************)
(* Properties                                                              *)
(***************************************************************************)
SetOps == {"SetVtxBoundaryInterpolation", "SetFVarLinearInterpolation",
           "SetCreasingMethod", "SetTriangleSubdivision"}

\* C1: a default-constructed object reports, through its four getters,
\* VTX_BOUNDARY_NONE, FVAR_LINEAR_ALL, CREASE_UNIFORM and TRI_SUB_CATMARK.
C1_DefaultConstruction ==
    last.op = "Options" =>
        /\ GetVtxBoundaryInterpolation(opts[last.inst]) = VTX_BOUNDARY_NONE
        /\ GetFVarLinearInterpolation(opts[last.inst]) = FVAR_LINEAR_ALL
        /\ GetCreasingMethod(opts[last.inst]) = CREASE_UNIFORM
        /\ GetTriangleSubdivision(opts[last.inst]) = TRI_SUB_CATMARK

C1_Witness ==
    /\ last.op = "Options"
    /\ written["A"] = NeverWritten
    /\ opts["A"].fvarLinInterp = 5
    /\ opts["A"].vtxBoundInterp = 0

\* C2: round trip: right after a setter is called with a declared member m of
\* its enum, the getter of that field returns exactly m (the bit width of the
\* field holds every declared ordinal).
C2_RoundTrip ==
    /\ (last.op = "SetVtxBoundaryInterpolation"
            /\ last.arg[1] \in VtxBoundaryInterpolation)
         => GetVtxBoundaryInterpolation(opts[last.inst]) = last.arg[1]
    /\ (last.op = "SetFVarLinearInterpolation"
            /\ last.arg[1] \in FVarLinearInterpolation)
         => GetFVarLinearInterpolation(opts[last.inst]) = last.arg[1]
    /\ (last.op = "SetCreasingMethod" /\ last.arg[1] \in CreasingMethod)
         => GetCreasingMethod(opts[last.inst]) = last.arg[1]
    /\ (last.op = "SetTriangleSubdivision" /\ last.arg[1] \in TriangleSubdivision)
         => GetTriangleSubdivision(opts[last.inst]) = last.arg[1]

C2_Witness ==
    /\ last.op = "SetFVarLinearInterpolation"
    /\ last.arg = <<FVAR_LINEAR_BOUNDARIES>>
    /\ opts["A"].fvarLinInterp = 4

\* C3: no cross-field interference: a setter called with a declared member
\* leaves the stored values of the other three fields of the object unchanged.
C3_NoCrossFieldInterference ==
    [][ /\ (last'.op = "SetVtxBoundaryInterpolation"
                /\ last'.arg[1] \in VtxBoundaryInterpolation)
             => /\ opts'[last'.inst].fvarLinInterp = opts[last'.inst].fvarLinInterp
                /\ opts'[last'.inst].creasingMethod = opts[last'.inst].creasingMethod
                /\ opts'[last'.inst].triangleSub = opts[last'.inst].triangleSub
        /\ (last'.op = "SetFVarLinearInterpolation"
                /\ last'.arg[1] \in FVarLinearInterpolation)
             => /\ opts'[last'.inst].vtxBoundInterp = opts[last'.inst].vtxBoundInterp
                /\ opts'[last'.inst].creasingMethod = opts[last'.inst].creasingMethod
                /\ opts'[last'.inst].triangleSub = opts[last'.inst].triangleSub
        /\ (last'.op = "SetCreasingMethod" /\ last'.arg[1] \in CreasingMethod)
             => /\ opts'[last'.inst].vtxBoundInterp = opts[last'.inst].vtxBoundInterp
                /\ opts'[last'.inst].fvarLinInterp = opts[last'.inst].fvarLinInterp
                /\ opts'[last'.inst].triangleSub = opts[last'.inst].triangleSub
        /\ (last'.op = "SetTriangleSubdivision"
                /\ last'.arg[1] \in TriangleSubdivision)
             => /\ opts'[last'.inst].vtxBoundInterp = opts[last'.inst].vtxBoundInterp
                /\ opts'[last'.inst].fvarLinInterp = opts[last'.inst].fvarLinInterp
                /\ opts'[last'.inst].creasingMethod = opts[last'.inst].creasingMethod
      ]_vars

\* Defaults, then vertex boundary := EdgeAndCorner, then face-varying :=
\* CornersOnly: creasing and triangle subdivision were never written and still
\* hold Uniform and Catmark.
C3_Witness ==
    /\ last.op = "SetFVarLinearInterpolation"
    /\ written["A"] = [vtxBoundInterp |-> <<VTX_BOUNDARY_EDGE_AND_CORNER>>,
                       fvarLinInterp |-> <<FVAR_LINEAR_CORNERS_ONLY>>,
                       creasingMethod |-> << >>, triangleSub |-> << >>]
    /\ opts["A"] = [vtxBoundInterp |-> 2, fvarLinInterp |-> 1,
                    creasingMethod |-> 0, triangleSub |-> 0]

\* C4 (as claimed): a setter handed a numeric value that is no declared member
\* of the field's enum is rejected with InvalidOptionValue and leaves the
\* object unchanged.
C4_InvalidValueRejected ==
    [][ \/ last'.op \notin SetOps
        \/ /\ last'.op = "SetVtxBoundaryInterpolation"
           /\ last'.arg[1] \in VtxBoundaryInterpolation
        \/ /\ last'.op = "SetFVarLinearInterpolation"
           /\ last'.arg[1] \in FVarLinearInterpolation
        \/ /\ last'.op = "SetCreasingMethod"
           /\ last'.arg[1] \in CreasingMethod
        \/ /\ last'.op = "SetTriangleSubdivision"
           /\ last'.arg[1] \in TriangleSubdivision
        \/ /\ last'.status = "InvalidOptionValue"
           /\ opts' = opts
      ]_vars

\* C6: copy independence: a copy starts with the four field values of its
\* source, the copy leaves every other object unchanged, and a setter call on
\* one object leaves every other object's four fields unchanged.
C6_CopyIndependence ==
    [][ /\ last'.op = "Copy"
             => /\ opts'[last'.inst] = opts[last'.arg[1]]
                /\ \A i \in DOMAIN opts :
                      i # last'.inst => opts'[i] = opts[i]
        /\ last'.op \in SetOps
             => \A i \in DOMAIN opts : i # last'.inst => opts'[i] = opts[i]
      ]_vars

\* B exists (only ever as a copy), was then changed by a setter, and the
\* original still holds the never-written defaults.
C6_Witness ==
    /\ "B" \in DOMAIN opts
    /\ last.op = "SetFVarLinearInterpolation"
    /\ last.inst = "B"
    /\ opts["B"].fvarLinInterp = 2
    /\ written["A"] = NeverWritten
    /\ opts["A"] = [vtxBoundInterp |-> 0, fvarLinInterp |-> 5,
                    creasingMethod |-> 0, triangleSub |-> 0]

\* C7: getters are pure: a getter call never fails, returns the value stored
\* in its field, and leaves every stored field unchanged.
C7_GettersPure ==
    [][ /\ last'.op = "GetVtxBoundaryInterpolation"
             => /\ last'.ret = <<opts[last'.inst].vtxBoundInterp>>
                /\ last'.status = "ok"
                /\ opts' = opts
        /\ last'.op = "GetFVarLinearInterpolation"
             => /\ last'.ret = <<opts[last'.inst].fvarLinInterp>>
                /\ last'.status = "ok"
                /\ opts' = opts
        /\ last'.op = "GetCreasingMethod"
             => /\ last'.ret = <<opts[last'.inst].creasingMethod>>
                /\ last'.status = "ok"
                /\ opts' = opts
        /\ last'.op = "GetTriangleSubdivision"
             => /\ last'.ret = <<opts[last'.inst].triangleSub>>
                /\ last'.status = "ok"
                /\ opts' = opts
      ]_vars

C7_Witness ==
    /\ last.op = "GetFVarLinearInterpolation"
    /\ last.ret = <<FVAR_LINEAR_BOUNDARIES>>
    /\ last.status = "ok"
    /\ opts["A"].fvarLinInterp = 4

\* C8 (as claimed): in every state reachable from default construction by
\* setter calls, every stored field is a declared member of its enum.
C8_DomainInvariant ==
    \A i \in DOMAIN opts :
        /\ opts[i].vtxBoundInterp \in VtxBoundaryInterpolation
        /\ opts[i].fvarLinInterp \in FVarLinearInterpolation
        /\ opts[i].creasingMethod \in CreasingMethod
        /\ opts[i].triangleSub \in TriangleSubdivision

\* C9 (as claimed): a value n outside the enum handed to a field of width w
\* is stored as n mod 2^w, and the getter then returns a declared member of
\* the field's enum that differs from n.
C9_WrapsToDeclaredMember ==
    /\ (last.op = "SetVtxBoundaryInterpolation"
            /\ last.arg[1] \notin VtxBoundaryInterpolation)
         => /\ opts[last.inst].vtxBoundInterp = last.arg[1] % 4
            /\ GetVtxBoundaryInterpolation(opts[last.inst])
                   \in VtxBoundaryInterpolation \ {last.arg[1]}
    /\ (last.op = "SetFVarLinearInterpolation"
            /\ last.arg[1] \notin FVarLinearInterpolation)
         => /\ opts[last.inst].fvarLinInterp = last.arg[1] % 8
            /\ GetFVarLinearInterpolation(opts[last.inst])
                   \in FVarLinearInterpolation \ {last.arg[1]}
    /\ (last.op = "SetCreasingMethod" /\ last.arg[1] \notin CreasingMethod)
         => /\ opts[last.inst].creasingMethod = last.arg[1] % 4
            /\ GetCreasingMethod(opts[last.inst])
                   \in CreasingMethod \ {last.arg[1]}
    /\ (last.op = "SetTriangleSubdivision"
            /\ last.arg[1] \notin TriangleSubdivision)
         => /\ opts[last.inst].triangleSub = last.arg[1] % 4
            /\ GetTriangleSubdivision(opts[last.inst])
                   \in TriangleSubdivision \ {last.arg[1]}

\* C9 (amended): a value n outside the enum handed to a field of width w is
\* stored as n mod 2^w; the getter returns a declared member exactly when
\* n mod 2^w is below the number of declared members, and otherwise an
\* undeclared bit pattern of the field.
C9_WrapsModulo ==
    /\ (last.op = "SetVtxBoundaryInterpolation"
            /\ last.arg[1] \notin VtxBoundaryInterpolation)
         => /\ GetVtxBoundaryInterpolation(opts[last.inst]) = last.arg[1] % 4
            /\ (GetVtxBoundaryInterpolation(opts[last.inst])
                    \in VtxBoundaryInterpolation) <=> (last.arg[1] % 4 < 3)
    /\ (last.op = "SetFVarLinearInterpolation"
            /\ last.arg[1] \notin FVarLinearInterpolation)
         => /\ GetFVarLinearInterpolation(opts[last.inst]) = last.arg[1] % 8
            /\ (GetFVarLinearInterpolation(opts[last.inst])
                    \in FVarLinearInterpolation) <=> (last.arg[1] % 8 < 6)
    /\ (last.op = "SetCreasingMethod" /\ last.arg[1] \notin CreasingMethod)
         => /\ GetCreasingMethod(opts[last.inst]) = last.arg[1] % 4
            /\ (GetCreasingMethod(opts[last.inst]) \in CreasingMethod)
                   <=> (last.arg[1] % 4 < 2)
    /\ (last.op = "SetTriangleSubdivision"
            /\ last.arg[1] \notin TriangleSubdivision)
         => /\ GetTriangleSubdivision(opts[last.inst]) = last.arg[1] % 4
            /\ (GetTriangleSubdivision(opts[last.inst]) \in TriangleSubdivision)
                   <=> (last.arg[1] % 4 < 2)

\* 8 handed to the 3-bit face-varying field wraps to FVAR_LINEAR_NONE.
C9_Witness ==
    /\ last.op = "SetFVarLinearInterpolation"
    /\ last.arg = <<8>>
    /\ opts["A"].fvarLinInterp = 0

\* C10: last write wins per field: each getter returns the argument of the
\* most recent setter call on its field when that argument is a declared
\* member, and the field's default when the setter was never called.
C10_LastWriteWins ==
    \A i \in DOMAIN opts :
        /\ IF written[i].vtxBoundInterp = << >>
             THEN GetVtxBoundaryInterpolation(opts[i]) = VTX_BOUNDARY_NONE
             ELSE written[i].vtxBoundInterp[1] \in VtxBoundaryInterpolation
                    => GetVtxBoundaryInterpolation(opts[i])
                           = written[i].vtxBoundInterp[1]
        /\ IF written[i].fvarLinInterp = << >>
             THEN GetFVarLinearInterpolation(opts[i]) = FVAR_LINEAR_ALL
             ELSE written[i].fvarLinInterp[1] \in FVarLinearInterpolation
                    => GetFVarLinearInterpolation(opts[i])
                           = written[i].fvarLinInterp[1]
        /\ IF written[i].creasingMethod = << >>
             THEN GetCreasingMethod(opts[i]) = CREASE_UNIFORM
             ELSE written[i].creasingMethod[1] \in CreasingMethod
                    => GetCreasingMethod(opts[i]) = written[i].creasingMethod[1]
        /\ IF written[i].triangleSub = << >>
             THEN GetTriangleSubdivision(opts[i]) = TRI_SUB_CATMARK
             ELSE written[i].triangleSub[1] \in TriangleSubdivision
                    => GetTriangleSubdivision(opts[i]) = written[i].triangleSub[1]

\* Creasing was written last, vertex boundary before it, the other two never.
C10_Witness ==
    /\ last.op = "SetCreasingMethod"
    /\ written["A"] = [vtxBoundInterp |-> <<VTX_BOUNDARY_EDGE_ONLY>>,
                       fvarLinInterp |-> << >>,
                       creasingMethod |-> <<CREASE_CHAIKIN>>,
                       triangleSub |-> << >>]
    /\ opts["A"] = [vtxBoundInterp |-> 1, fvarLinInterp |-> 5,
                    creasingMethod |-> 1, triangleSub |-> 0]

====
